---- MODULE Spec2Model ----
(***************************************************************************)
(* A model of src/Timer.js: the Timer closure (the variables proceed and   *)
(* identifier), the host's window.setTimeout / setInterval / clearTimeout  *)
(* / clearInterval, and a virtual clock that drives the host.              *)
(***************************************************************************)
EXTENDS Integers, Sequences, FiniteSets

\* ------------------------------------------------------------------ bounds
MaxDelay == 2    \* delays and postpone delays range over 0..MaxDelay
MaxTime == 6     \* the virtual clock stops advancing at MaxTime
MaxCalls == 3    \* no fire is delivered once the listener has run MaxCalls times
MaxId == 5       \* no call that registers with the host once nextId > MaxId
MaxQueue == 1    \* tasks the racing host may hold queued at once

VARIABLES
    oneOff,      \* constructor argument
    delay,       \* constructor argument
    proceed,     \* closure variable: "oneOffProceed", "repeatProceed" or "null"
    identifier,  \* closure variable: the id of the last registration made
    regs,        \* host: the active timeouts and intervals
    nextId,      \* host: the next identifier it hands out
    crossClear,  \* host: clearInterval and clearTimeout are interchangeable
    queue,       \* host: callbacks taken off the timer list, not yet run
    now,         \* host: the virtual clock
    log,         \* the times at which the listener was invoked
    postponed,   \* history: postpone has been called
    destroyedAt, \* history: Len(log) when destroy first returned, -1 before
    armed,       \* history: the last postpone made on a live timer
    lastOp,      \* history: the last call made on the timer's interface
    listenerOk,  \* constructor argument: the listener is a function
    sharedIds,   \* host: timeouts and intervals draw identifiers from one counter
    nextIntervalId, \* host: the next interval identifier when they do not
    strictHandlers, \* host: setTimeout and setInterval throw unless given a function
    built,       \* the constructor returned the timer's interface
    oneOff2,     \* a second timer on the same host: constructor argument
    delay2,      \* second timer: constructor argument
    proceed2,    \* second timer: closure variable
    identifier2, \* second timer: closure variable
    log2,        \* second timer: the times its listener was invoked
    gHost,       \* gradient: what the browser's arrays and style engine support
    gArgs,       \* gradient: the arguments of a makeLinearGradientString call
    gResult      \* gradient: what the call returned, Pending before it has

second == <<oneOff2, delay2, proceed2, identifier2, log2>>

hostKind == <<crossClear, sharedIds, strictHandlers>>

grad == <<gHost, gArgs, gResult>>

vars == <<oneOff, delay, proceed, identifier, regs, nextId, crossClear, queue,
          now, log, postponed, destroyedAt, armed, lastOp, listenerOk, sharedIds,
          nextIntervalId, strictHandlers, built, oneOff2, delay2, proceed2,
          identifier2, log2, gHost, gArgs, gResult>>

Null == "null"

Delays == 0..MaxDelay

NotArmed == [live |-> FALSE, at |-> 0, by |-> 0, base |-> 0, arg |-> -1]

\* What a listener does with its own timer while it runs.
Reactions ==
    {[op |-> "none", hasArg |-> FALSE, p |-> 0],
     [op |-> "destroy", hasArg |-> FALSE, p |-> 0],
     [op |-> "postpone", hasArg |-> FALSE, p |-> 0]}
    \cup {[op |-> "postpone", hasArg |-> TRUE, p |-> d] : d \in Delays}

\* The state the operations thread through: the closure of timer tm (its
\* arguments and variables), the host and the history. ret is the value the last
\* host call returned, raised whether a call has thrown.
World ==
    [tm |-> 1, oneOff |-> oneOff, delay |-> delay, listenerOk |-> listenerOk,
     proceed |-> proceed, identifier |-> identifier, regs |-> regs,
     nextId |-> nextId, nextIntervalId |-> nextIntervalId, log |-> log,
     postponed |-> postponed, destroyedAt |-> destroyedAt, armed |-> armed,
     lastOp |-> lastOp, ret |-> 0,
     raised |-> FALSE]

\* ------------------------------------------------------------------- host
\* The host takes a negative delay as 0.
Clamp(d) == IF d < 0 THEN 0 ELSE d

\* The handler is a function: a continuation, or a listener that is one.
Callable(w, handler) ==
    \/ handler \in {"oneOffProceed", "repeatProceed"}
    \/ handler = "listener" /\ w.listenerOk

\* window.setTimeout / window.setInterval. Given a handler that is no function,
\* a browser registers it as a script (for null, one that does nothing);
\* other hosts throw a TypeError and register nothing.
Register(w, kind, handler, d) ==
    LET own == ~sharedIds /\ kind = "interval"
        id == IF own THEN w.nextIntervalId ELSE w.nextId
    IN  IF strictHandlers /\ ~Callable(w, handler) THEN [w EXCEPT !.raised = TRUE] ELSE
        [w EXCEPT !.regs = @ \cup {[id |-> id, kind |-> kind, handler |-> handler,
                                    owner |-> w.tm, delay |-> Clamp(d),
                                    due |-> now + Clamp(d)]},
                  !.nextId = IF own THEN @ ELSE @ + 1,
                  !.nextIntervalId = IF own THEN @ + 1 ELSE @,
                  !.ret = id]

setTimeout(w, handler, d) == Register(w, "timeout", handler, d)

setInterval(w, handler, d) == Register(w, "interval", handler, d)

Clear(w, kind, id) ==
    [w EXCEPT !.regs = {r \in @ : ~(r.id = id /\ (crossClear \/ r.kind = kind))}]

clearInterval(w, id) == Clear(w, "interval", id)

clearTimeout(w, id) == Clear(w, "timeout", id)

\* ------------------------------------------------------------------ Timer
\* stop as it would be had the calls that clear been left out.
stopNothing(w) == w

\* stop as it would be with the call to window.clearTimeout left out.
stopIntervalOnly(w) == clearInterval(w, w.identifier)

\* stop as it would be with the call to window.clearInterval left out.
stopTimeoutOnly(w) == clearTimeout(w, w.identifier)

\* stop as it would be if identifier were one variable shared by all timers (a
\* global instead of a closure variable): it clears the host's newest identifier.
stopNewest(w) == clearTimeout(clearInterval(w, w.nextId - 1), w.nextId - 1)

stop(w) == clearTimeout(clearInterval(w, w.identifier), w.identifier)

\* destroy as it would be without the assignment proceed = null.
destroyKeepsProceed(w) ==
    LET s == stop(w)
    IN  [s EXCEPT !.destroyedAt = IF @ = -1 THEN Len(s.log) ELSE @,
                  !.armed = NotArmed,
                  !.lastOp = IF @ \in {"destroy", "destroyInFire", "destroyAgain"}
                             THEN "destroyAgain" ELSE "destroy"]

destroy(w) ==
    LET s == stop(w)
    IN  [s EXCEPT !.proceed = Null,
                  !.destroyedAt = IF @ = -1 THEN Len(s.log) ELSE @,
                  !.armed = NotArmed,
                  !.lastOp = IF @ \in {"destroy", "destroyInFire", "destroyAgain"}
                             THEN "destroyAgain" ELSE "destroy"]

\* postpone as it would be without the call to stop.
\* setTimeout threw: postpone ends there, identifier is not assigned.
postponeThrew(r) ==
    [r EXCEPT !.postponed = TRUE, !.armed = NotArmed, !.lastOp = "postponeThrew"]

postponeWithoutStop(w, hasArg, postponeDelay) ==
    LET d == IF ~hasArg THEN w.delay ELSE postponeDelay
        r == setTimeout(w, w.proceed, d)
    IN  IF r.raised THEN postponeThrew(r) ELSE
        [r EXCEPT !.identifier = r.ret,
                  !.postponed = TRUE,
                  !.armed = IF w.proceed # Null /\ w.destroyedAt = -1
                            THEN [live |-> TRUE, at |-> now, by |-> d, base |-> Len(w.log),
                                  arg |-> IF hasArg THEN postponeDelay ELSE -1]
                            ELSE NotArmed,
                  !.lastOp = "postpone"]

\* postpone as it would be with "postponeDelay || delay" for the delay: an
\* argument of 0 taken for no argument.
postponeFalsyDefault(w, hasArg, postponeDelay) ==
    LET s == stop(w)
        d == IF ~hasArg \/ postponeDelay = 0 THEN w.delay ELSE postponeDelay
        r == setTimeout(s, s.proceed, d)
    IN  IF r.raised THEN postponeThrew(r) ELSE
        [r EXCEPT !.identifier = r.ret,
                  !.postponed = TRUE,
                  !.armed = IF s.proceed # Null /\ s.destroyedAt = -1
                            THEN [live |-> TRUE, at |-> now, by |-> d, base |-> Len(s.log),
                                  arg |-> IF hasArg THEN postponeDelay ELSE -1]
                            ELSE NotArmed,
                  !.lastOp = "postpone"]

\* postpone as it would be if it ignored its argument.
postponeIgnoresArgument(w, hasArg, postponeDelay) ==
    LET s == stop(w)
        r == setTimeout(s, s.proceed, w.delay)
    IN  IF r.raised THEN postponeThrew(r) ELSE
        [r EXCEPT !.identifier = r.ret,
                  !.postponed = TRUE,
                  !.armed = IF s.proceed # Null /\ s.destroyedAt = -1
                            THEN [live |-> TRUE, at |-> now, by |-> w.delay, base |-> Len(s.log),
                                  arg |-> IF hasArg THEN postponeDelay ELSE -1]
                            ELSE NotArmed,
                  !.lastOp = "postpone"]

postpone(w, hasArg, postponeDelay) ==
    LET s == stop(w)
        d == IF ~hasArg THEN w.delay ELSE postponeDelay
        r == setTimeout(s, s.proceed, d)
    IN  IF r.raised THEN postponeThrew(r) ELSE
        [r EXCEPT !.identifier = r.ret,
                  !.postponed = TRUE,
                  !.armed = IF s.proceed # Null /\ s.destroyedAt = -1
                            THEN [live |-> TRUE, at |-> now, by |-> d, base |-> Len(s.log),
                                  arg |-> IF hasArg THEN postponeDelay ELSE -1]
                            ELSE NotArmed,
                  !.lastOp = "postpone"]

\* The caller's listener: it is invoked, and may call back into its timer. A
\* listener that is no function cannot be invoked: the call throws.
listener(w, reaction) ==
    LET c == [w EXCEPT !.log = Append(@, now)]
    IN  CASE ~w.listenerOk -> w
          [] reaction.op = "destroy" -> [destroy(c) EXCEPT !.lastOp = "destroyInFire"]
          [] reaction.op = "postpone" -> postpone(c, reaction.hasArg, reaction.p)
          [] OTHER -> c

\* The one-off continuation as it would be if it kept itself in proceed.
oneOffProceedKept(w, reaction) == listener(w, reaction)

\* The one-off continuation as it would be with its two statements swapped:
\* the listener runs while proceed is still set.
oneOffProceedLate(w, reaction) == [listener(w, reaction) EXCEPT !.proceed = Null]

oneOffProceed(w, reaction) == listener([w EXCEPT !.proceed = Null], reaction)

\* The repeating continuation as it would be without the new interval.
repeatProceedNoInterval(w, reaction) == listener(w, reaction)

\* The repeating continuation as it would be with its two statements swapped:
\* the listener runs before the new interval exists.
repeatProceedListenerFirst(w, reaction) ==
    LET l == listener(w, reaction)
        r == setInterval(l, "listener", l.delay)
    IN  [r EXCEPT !.identifier = r.ret]

\* The repeating continuation as it would be if it did not store the new
\* interval's identifier.
repeatProceedNoStore(w, reaction) == listener(setInterval(w, "listener", w.delay), reaction)

repeatProceed(w, reaction) ==
    LET r == setInterval(w, "listener", w.delay)
    IN  IF r.raised THEN r ELSE listener([r EXCEPT !.identifier = r.ret], reaction)

\* The constructor as it would be with window.setInterval in the one-off branch.
TimerOneOffAsInterval(w) ==
    LET r == setInterval(w, IF w.oneOff THEN "oneOffProceed" ELSE "listener", w.delay)
    IN  [r EXCEPT !.proceed = IF w.oneOff THEN "oneOffProceed" ELSE "repeatProceed",
                  !.identifier = r.ret]

\* The constructor as it would be with window.setTimeout in the repeating branch.
TimerRepeatingAsTimeout(w) ==
    LET r == setTimeout(w, IF w.oneOff THEN "oneOffProceed" ELSE "listener", w.delay)
    IN  [r EXCEPT !.proceed = IF w.oneOff THEN "oneOffProceed" ELSE "repeatProceed",
                  !.identifier = r.ret]

\* The constructor, on a host that has handed out no identifier yet. Where
\* setInterval throws, proceed has been assigned, identifier has not, and the
\* constructor returns nothing.
Timer(w) ==
    IF w.oneOff
    THEN LET r == setTimeout(w, "oneOffProceed", w.delay)
         IN  [r EXCEPT !.proceed = "oneOffProceed", !.identifier = r.ret]
    ELSE LET r == setInterval(w, "listener", w.delay)
         IN  IF r.raised THEN [r EXCEPT !.proceed = "repeatProceed"]
             ELSE [r EXCEPT !.proceed = "repeatProceed", !.identifier = r.ret]

\* The host runs a handler it was given. A handler that is no function (null),
\* where the host took it, is compiled as the script "null", which does nothing.
Run(w, handler, reaction) ==
    CASE handler = "listener" -> listener(w, reaction)
      [] handler = "oneOffProceed" -> oneOffProceed(w, reaction)
      [] handler = "repeatProceed" -> repeatProceed(w, reaction)
      [] OTHER -> w

\* The host takes a due registration: a timeout leaves the list, an interval
\* is scheduled again.
Expire(w, r) ==
    [w EXCEPT !.regs = IF r.kind = "timeout"
                       THEN @ \ {r}
                       ELSE (@ \ {r}) \cup {[r EXCEPT !.due = @ + r.delay]}]

Commit(w) ==
    /\ proceed' = w.proceed
    /\ identifier' = w.identifier
    /\ regs' = w.regs
    /\ nextId' = w.nextId
    /\ nextIntervalId' = w.nextIntervalId
    /\ log' = w.log
    /\ postponed' = w.postponed
    /\ destroyedAt' = w.destroyedAt
    /\ armed' = w.armed
    /\ lastOp' = w.lastOp

\* Before the constructor has run, on a host that has handed out no identifier.
Fresh ==
    [tm |-> 1, oneOff |-> oneOff, delay |-> delay, listenerOk |-> listenerOk,
     proceed |-> Null, identifier |-> 0, regs |-> {}, nextId |-> 1,
     nextIntervalId |-> 1, log |-> <<>>, postponed |-> FALSE, destroyedAt |-> -1,
     armed |-> NotArmed, lastOp |-> "create", ret |-> 0,
     raised |-> FALSE]

\* The state once Timer(listener, delay, oneOff) has returned or thrown.
Constructed ==
    /\ now = 0
    /\ built = ~Timer(Fresh).raised
    /\ queue = <<>>
    /\ proceed = Timer(Fresh).proceed
    /\ identifier = Timer(Fresh).identifier
    /\ regs = Timer(Fresh).regs
    /\ nextId = Timer(Fresh).nextId
    /\ nextIntervalId = Timer(Fresh).nextIntervalId
    /\ log = <<>>
    /\ postponed = FALSE
    /\ destroyedAt = -1
    /\ armed = NotArmed
    /\ lastOp = "create"

\* No second timer, and no call of makeLinearGradientString.
Alone ==
    /\ gHost = [extras |-> FALSE, to |-> {}, from |-> {}]
    /\ gArgs = <<>>
    /\ gResult = <<>>
    /\ oneOff2 = FALSE
    /\ delay2 = 0
    /\ proceed2 = Null
    /\ identifier2 = 0
    /\ log2 = <<>>

Init ==
    /\ oneOff \in BOOLEAN
    /\ delay \in Delays
    /\ listenerOk = TRUE
    /\ crossClear \in BOOLEAN
    /\ sharedIds = TRUE
    /\ strictHandlers \in BOOLEAN
    /\ Constructed
    /\ Alone

Due == {r \in regs : r.due <= now}

\* Virtual time advances once every registration that is due has been taken.
Tick ==
    /\ now < MaxTime
    /\ Due = {}
    /\ now' = now + 1
    /\ UNCHANGED <<oneOff, delay, proceed, identifier, regs, nextId, crossClear,
                   queue, log, postponed, destroyedAt, armed, lastOp, listenerOk,
                   sharedIds, nextIntervalId, strictHandlers, built, second, grad>>

\* The host fires a due registration and runs its handler to completion.
Fire ==
    /\ Len(log) < MaxCalls
    /\ nextId <= MaxId
    /\ \E r \in Due, reaction \in Reactions :
          /\ r.owner = 1
          /\ Commit(Run(Expire(World, r), r.handler, reaction))
    /\ UNCHANGED <<oneOff, delay, listenerOk, built, hostKind, queue, now, second, grad>>

Postpone ==
    /\ built
    /\ nextId <= MaxId
    /\ \E hasArg \in BOOLEAN, p \in Delays :
          /\ (~hasArg => p = 0)
          /\ Commit(postpone(World, hasArg, p))
    /\ UNCHANGED <<oneOff, delay, listenerOk, built, hostKind, queue, now, second, grad>>

Destroy ==
    /\ built
    /\ Commit(destroy(World))
    /\ UNCHANGED <<oneOff, delay, listenerOk, built, hostKind, queue, now, second, grad>>

Next == Tick \/ Fire \/ Postpone \/ Destroy

Spec == Init /\ [][Next]_vars

\* A host that takes a due registration off its list first and runs the handler
\* later, and whose clearTimeout / clearInterval do not reach a handler already
\* taken: the handler runs even when the registration was cleared in between.
Enqueue ==
    /\ Len(queue) < MaxQueue
    /\ \E r \in Due :
          /\ regs' = Expire(World, r).regs
          /\ queue' = Append(queue, r.handler)
    /\ UNCHANGED <<oneOff, delay, proceed, identifier, nextId, crossClear, now,
                   log, postponed, destroyedAt, armed, lastOp, listenerOk,
                   sharedIds, nextIntervalId, strictHandlers, built, second, grad>>

Deliver ==
    /\ queue # <<>>
    /\ Len(log) < MaxCalls
    /\ nextId <= MaxId
    /\ \E reaction \in Reactions : Commit(Run(World, Head(queue), reaction))
    /\ queue' = Tail(queue)
    /\ UNCHANGED <<oneOff, delay, listenerOk, built, hostKind, now, second, grad>>

NextRace == Next \/ Enqueue \/ Deliver

\* A fair host, with interchangeable clear functions: a registration that is
\* due is eventually taken, and time passes.
InitFair == Init /\ crossClear

SpecFair == InitFair /\ [][Next]_vars /\ WF_vars(Fire) /\ WF_vars(Tick)

SpecRace == Init /\ [][NextRace]_vars

\* ------------------------------------------------------- any arguments
\* The constructor called with whatever it is given: a delay that may be
\* negative, a listener that may be no function.
InitAny ==
    /\ oneOff \in BOOLEAN
    /\ delay \in (0 - 1)..MaxDelay
    /\ listenerOk \in BOOLEAN
    /\ crossClear \in BOOLEAN
    /\ sharedIds = TRUE
    /\ strictHandlers \in BOOLEAN
    /\ Constructed
    /\ Alone

SpecAny == InitAny /\ [][Next]_vars

\* --------------------------------------------------------- two timers
\* The second timer's closure, on the same host. Its history is not kept.
World2 ==
    [tm |-> 2, oneOff |-> oneOff2, delay |-> delay2, listenerOk |-> TRUE,
     proceed |-> proceed2, identifier |-> identifier2, regs |-> regs,
     nextId |-> nextId, nextIntervalId |-> nextIntervalId, log |-> log2,
     postponed |-> FALSE, destroyedAt |-> -1, armed |-> NotArmed,
     lastOp |-> "create", ret |-> 0,
     raised |-> FALSE]

Commit2(w) ==
    /\ proceed2' = w.proceed
    /\ identifier2' = w.identifier
    /\ regs' = w.regs
    /\ nextId' = w.nextId
    /\ nextIntervalId' = w.nextIntervalId
    /\ log2' = w.log

first == <<oneOff, delay, proceed, identifier, log, postponed, destroyedAt, armed,
           lastOp, listenerOk, built>>

\* The second timer is constructed right after the first, on the same host.
Both ==
    LET one == Timer(Fresh)
        two == Timer([Fresh EXCEPT !.tm = 2, !.oneOff = oneOff2, !.delay = delay2,
                                   !.regs = one.regs, !.nextId = one.nextId,
                                   !.nextIntervalId = one.nextIntervalId])
    IN  /\ proceed = one.proceed
        /\ identifier = one.identifier
        /\ proceed2 = two.proceed
        /\ identifier2 = two.identifier
        /\ regs = two.regs
        /\ nextId = two.nextId
        /\ nextIntervalId = two.nextIntervalId

InitPair ==
    /\ oneOff \in BOOLEAN
    /\ delay \in Delays
    /\ oneOff2 \in BOOLEAN
    /\ delay2 \in Delays
    /\ listenerOk = TRUE
    /\ sharedIds \in BOOLEAN
    /\ crossClear \in (IF sharedIds THEN BOOLEAN ELSE {FALSE})
    /\ strictHandlers \in BOOLEAN
    /\ built = TRUE
    /\ now = 0
    /\ queue = <<>>
    /\ log = <<>>
    /\ log2 = <<>>
    /\ postponed = FALSE
    /\ destroyedAt = -1
    /\ armed = NotArmed
    /\ lastOp = "create"
    /\ Both
    /\ gHost = [extras |-> FALSE, to |-> {}, from |-> {}]
    /\ gArgs = <<>>
    /\ gResult = <<>>

\* The first timer's closure with its history left as it is.
Commit1(w) ==
    /\ proceed' = w.proceed
    /\ identifier' = w.identifier
    /\ regs' = w.regs
    /\ nextId' = w.nextId
    /\ nextIntervalId' = w.nextIntervalId
    /\ log' = w.log

WorldOf(t) == IF t = 1 THEN World ELSE World2

CommitOf(t, w) ==
    IF t = 1
    THEN Commit1(w) /\ UNCHANGED <<oneOff, delay, listenerOk, built, postponed, destroyedAt,
                                   armed, lastOp, second>>
    ELSE Commit2(w) /\ UNCHANGED <<first, oneOff2, delay2>>

\* With two timers the listeners run MaxCalls times between them, and the
\* clock runs to MaxDelay.
Room == Len(log) + Len(log2) < MaxCalls /\ nextId <= MaxId /\ nextIntervalId <= MaxId

\* With two timers postpone is called without argument.
PairReactions == {x \in Reactions : ~x.hasArg}

TickPair == now < MaxDelay /\ Tick

FireOf(t) ==
    /\ Room
    /\ \E r \in Due, reaction \in PairReactions :
          /\ r.owner = t
          /\ CommitOf(t, Run(Expire(WorldOf(t), r), r.handler, reaction))
    /\ UNCHANGED <<hostKind, queue, now, grad>>

PostponeOf(t) ==
    /\ Room
    /\ CommitOf(t, postpone(WorldOf(t), FALSE, 0))
    /\ UNCHANGED <<hostKind, queue, now, grad>>

DestroyOf(t) ==
    /\ CommitOf(t, destroy(WorldOf(t)))
    /\ UNCHANGED <<hostKind, queue, now, grad>>

Fire1 == FireOf(1)

Postpone1 == PostponeOf(1)

Destroy1 == DestroyOf(1)

Fire2 == FireOf(2)

Postpone2 == PostponeOf(2)

Destroy2 == DestroyOf(2)

NextPair ==
    TickPair \/ Fire1 \/ Postpone1 \/ Destroy1 \/ Fire2 \/ Postpone2 \/ Destroy2

SpecPair == InitPair /\ [][NextPair]_vars

(***************************************************************************)
(* A model of src/gradient-string-making.js.  A string is a sequence of    *)
(* one-character strings, so that matching, concatenating and joining are  *)
(* computed character by character.                                        *)
(***************************************************************************)
MaxStops == 2

\* gResult before the call has returned.
Pending == <<"?">>

prefixes == <<<<>>, <<"-", "m", "o", "z", "-">>, <<"-", "o", "-">>,
              <<"-", "w", "e", "b", "k", "i", "t", "-">>,
              <<"-", "m", "s", "-">>>>

linearGradient == <<"l", "i", "n", "e", "a", "r", "-", "g", "r", "a", "d", "i", "e", "n", "t", "(">>

sides == <<<<"t", "o", "p">>, <<"r", "i", "g", "h", "t">>,
           <<"b", "o", "t", "t", "o", "m">>, <<"l", "e", "f", "t">>>>

\* The 25 characters the regular expression's \s matches: tab, line feed, form
\* feed, carriage return, space, no-break space, ogham space mark and the
\* byte order mark as themselves; vertical tab, U+2000 to U+200A, the line and
\* paragraph separators, U+202F, U+205F and U+3000, which a string of this
\* module cannot hold, each as the one-character string that names it.
Spaces ==
    {" ", "\t", "\n", "\f", "\r", " ", " ", "﻿", "U+000B", "U+2000",
      "U+2001", "U+2002", "U+2003", "U+2004", "U+2005", "U+2006", "U+2007",
      "U+2008", "U+2009", "U+200A", "U+2028", "U+2029", "U+202F", "U+205F",
      "U+3000"}

\* The 63 characters \w matches.
WordChars ==
    {"a", "b", "c", "d", "e", "f", "g", "h", "i", "j", "k", "l", "m", "n",
      "o", "p", "q", "r", "s", "t", "u", "v", "w", "x", "y", "z", "A", "B",
      "C", "D", "E", "F", "G", "H", "I", "J", "K", "L", "M", "N", "O", "P",
      "Q", "R", "S", "T", "U", "V", "W", "X", "Y", "Z", "0", "1", "2", "3",
      "4", "5", "6", "7", "8", "9", "_"}

\* The end of the longest run of characters of class at position i of s.
RECURSIVE RunEnd(_, _, _)
RunEnd(s, i, class) ==
    IF i <= Len(s) /\ s[i] \in class THEN RunEnd(s, i + 1, class) ELSE i

\* /^\s*to\s+(\w+)(\s+(\w+))?/ applied to s: whether it matches, and the
\* groups 1 and 3 (has3 is FALSE where group 3 is undefined).  Every
\* quantifier is greedy, and giving characters back never helps a later part
\* to match, so the match is computed left to right.
sideOrCornerExtractor(s) ==
    LET a == RunEnd(s, 1, Spaces)
        to == a + 1 <= Len(s) /\ s[a] = "t" /\ s[a + 1] = "o"
        b == RunEnd(s, a + 2, Spaces)
        c == RunEnd(s, b, WordChars)
        d == RunEnd(s, c, Spaces)
        e == RunEnd(s, d, WordChars)
        ok == to /\ b > a + 2 /\ c > b
        has3 == ok /\ d > c /\ e > d
    IN  [matched |-> ok,
         g1 |-> IF ok THEN SubSeq(s, b, c - 1) ELSE <<>>,
         has3 |-> has3,
         g3 |-> IF has3 THEN SubSeq(s, d, e - 1) ELSE <<>>]

\* Array.prototype.indexOf, zero-based, -1 where x is no element.
indexOf(arr, x) ==
    IF \E i \in 1..Len(arr) : arr[i] = x
    THEN (CHOOSE i \in 1..Len(arr) : arr[i] = x /\ \A j \in 1..(i - 1) : arr[j] # x) - 1
    ELSE 0 - 1

reverseSideByOne(inputSide) == sides[((indexOf(sides, inputSide) + 1) % 4) + 1]

\* sides[(sides.indexOf(inputSide) + 2) & 3]
reverseSide(inputSide) == sides[((indexOf(sides, inputSide) + 2) % 4) + 1]

\* Array.prototype.join with the default separator.
RECURSIVE join(_)
join(args) ==
    IF args = <<>> THEN <<>>
    ELSE IF Len(args) = 1 THEN args[1]
    ELSE args[1] \o <<",">> \o join(Tail(args))

\* prefixes.some(testPrefix, direction): the index of the first prefix the
\* style engine accepts with that syntax, 0 where it accepts none.
some(accepted) ==
    IF \E i \in 1..Len(prefixes) : prefixes[i] \in accepted
    THEN CHOOSE i \in 1..Len(prefixes) :
             prefixes[i] \in accepted /\ \A j \in 1..(i - 1) : prefixes[j] \notin accepted
    ELSE 0

workingOpening(i) == prefixes[i] \o linearGradient

\* The implementation the module chose on this host.
Mode ==
    IF ~gHost.extras THEN "null"
    ELSE IF some(gHost.to) # 0 THEN "standard"
    ELSE IF some(gHost.from) # 0 THEN "alternative"
    ELSE "null"

nullImplementation == <<>>

\* The function returned for the alternative syntax.
alternativeImplementation(args) ==
    LET sideOrCorner == sideOrCornerExtractor(IF args = <<>> THEN <<"u", "n", "d", "e", "f", "i", "n", "e", "d">> ELSE args[1])
        reversed == IF sideOrCorner.has3
                 THEN reverseSide(sideOrCorner.g1) \o <<" ">> \o reverseSide(sideOrCorner.g3)
                 ELSE reverseSide(sideOrCorner.g1)
        functionArguments == IF sideOrCorner.matched THEN <<reversed>> \o Tail(args) ELSE args
    IN  workingOpening(some(gHost.from)) \o join(functionArguments) \o <<")">>

makeLinearGradientString(args) ==
    CASE Mode = "standard" -> workingOpening(some(gHost.to)) \o join(args) \o <<")">>
      [] Mode = "alternative" -> alternativeImplementation(args)
      [] OTHER -> nullImplementation

\* The inputs of the calls explored: a first argument that is a standard
\* side-or-corner, or something else, followed by up to MaxStops colour stops.
Gaps == {<<" ">>, <<" ", " ">>, <<"\n">>, <<" ">>}

SideSet == {sides[i] : i \in 1..Len(sides)}

To(gap, side) == <<"t", "o">> \o gap \o side

ToCorner(side1, side2) == <<"t", "o", " ">> \o side1 \o <<" ">> \o side2

Colours == {<<"#", "4", "4", "4">>,
            <<"r", "g", "b", "a", "(", "6", "8", ",", " ", "6", "8", ",", " ", "6", "8", ",", " ", "0", ")">>}

OtherFirstArguments ==
    {<<"t", "o", "p">>, <<"4", "5", "d", "e", "g">>, <<"t", "o">>, <<"t", "o", "t", "o", "p">>,
     <<"t", "o", " ", "u", "p">>, <<"#", "4", "4", "4">>,
     <<"t", "o", " ", "T", "o", "p">>, <<"t", "o", " ", "t", "o", "p", "2">>,
     <<"t", "o", " ", "b", "o", "t", "t", "o", "m", " ", "7">>}

FirstArguments ==
    {To(gap, side) : gap \in Gaps, side \in SideSet}
        \cup {ToCorner(side1, side2) : side1 \in SideSet, side2 \in SideSet}
        \cup OtherFirstArguments

ColourStops == UNION {[1..n -> Colours] : n \in 0..MaxStops}

ArgumentLists == {<<>>} \cup {<<f>> \o stops : f \in FirstArguments, stops \in ColourStops}

PrefixSets == {S \in SUBSET {prefixes[i] : i \in 1..Len(prefixes)} : Cardinality(S) <= 2}

\* The page has loaded the module on some host; no Timer is involved.
InitGradient ==
    /\ gHost \in [extras : BOOLEAN, to : PrefixSets, from : PrefixSets]
    /\ gArgs \in ArgumentLists
    /\ gResult = Pending
    /\ oneOff = FALSE
    /\ delay = 0
    /\ listenerOk = TRUE
    /\ crossClear = FALSE
    /\ sharedIds = TRUE
    /\ strictHandlers = FALSE
    /\ built = FALSE
    /\ now = 0
    /\ queue = <<>>
    /\ proceed = Null
    /\ identifier = 0
    /\ regs = {}
    /\ nextId = 1
    /\ nextIntervalId = 1
    /\ log = <<>>
    /\ postponed = FALSE
    /\ destroyedAt = -1
    /\ armed = NotArmed
    /\ lastOp = "create"
    /\ oneOff2 = FALSE
    /\ delay2 = 0
    /\ proceed2 = Null
    /\ identifier2 = 0
    /\ log2 = <<>>

\* makeLinearGradientString(gArgs...) is called and returns.
Call ==
    /\ gResult = Pending
    /\ gResult' = makeLinearGradientString(gArgs)
    /\ UNCHANGED <<oneOff, delay, proceed, identifier, regs, nextId, crossClear,
                   queue, now, log, postponed, destroyedAt, armed, lastOp,
                   listenerOk, sharedIds, nextIntervalId, strictHandlers, built,
                   second, gHost, gArgs>>

NextGradient == Call

SpecGradient == InitGradient /\ [][NextGradient]_vars

(***************************************************************************)
(* The minified definition (the last line of src/Timer.js), which replaces *)
(* the readable one: a is the listener, d the delay, e the one-off flag, c *)
(* the continuation and b the identifier.  It keeps no history.            *)
(***************************************************************************)
\* destroy:function(){window.clearInterval(b);window.clearTimeout(b);c=null}
MinDestroy(w) ==
    [clearTimeout(clearInterval(w, w.identifier), w.identifier) EXCEPT !.proceed = Null]

\* postpone:function(a){...;b=window.setTimeout(c,arguments.length?a:d)}
MinPostpone(w, hasArg, a) ==
    LET s == clearTimeout(clearInterval(w, w.identifier), w.identifier)
        r == setTimeout(s, s.proceed, IF hasArg THEN a ELSE w.delay)
    IN  IF r.raised THEN r ELSE [r EXCEPT !.identifier = r.ret]

\* a(l): the caller's listener, calling back into the minified interface.
MinListener(w, reaction) ==
    LET c == [w EXCEPT !.log = Append(@, now)]
    IN  CASE ~w.listenerOk -> w
          [] reaction.op = "destroy" -> MinDestroy(c)
          [] reaction.op = "postpone" -> MinPostpone(c, reaction.hasArg, reaction.p)
          [] OTHER -> c

\* c=function(l){c=null;a(l)}
MinOneOffProceed(w, reaction) == MinListener([w EXCEPT !.proceed = Null], reaction)

\* c=function(l){b=window.setInterval(a,d);a(l)}
MinRepeatProceed(w, reaction) ==
    LET r == setInterval(w, "listener", w.delay)
    IN  IF r.raised THEN r ELSE MinListener([r EXCEPT !.identifier = r.ret], reaction)

\* var c,b=e?window.setTimeout(c=...,d):(c=...,window.setInterval(a,d))
MinTimer(w) ==
    IF w.oneOff
    THEN LET r == setTimeout(w, "oneOffProceed", w.delay)
         IN  [r EXCEPT !.proceed = "oneOffProceed", !.identifier = r.ret]
    ELSE LET r == setInterval(w, "listener", w.delay)
         IN  IF r.raised THEN [r EXCEPT !.proceed = "repeatProceed"]
             ELSE [r EXCEPT !.proceed = "repeatProceed", !.identifier = r.ret]

MinRun(w, handler, reaction) ==
    CASE handler = "listener" -> MinListener(w, reaction)
      [] handler = "oneOffProceed" -> MinOneOffProceed(w, reaction)
      [] handler = "repeatProceed" -> MinRepeatProceed(w, reaction)
      [] OTHER -> w

\* ----------------------------------------------------------------- claims
Untouched == ~postponed /\ destroyedAt = -1

\* C1: once destroy has returned the listener is never invoked again, however
\* far time advances and whatever postpone or destroy calls follow.
C1_NoInvocationAfterDestroy == destroyedAt # -1 => Len(log) = destroyedAt

\* A repeating timer that fired once, was destroyed and then postponed, with
\* the clock run to its end.
C1_Witness ==
    /\ ~oneOff
    /\ destroyedAt = 1
    /\ lastOp = "postpone"
    /\ now = MaxTime

\* C2: a fire the host took before destroy was called and runs after destroy
\* has returned does not invoke the listener.
C2_RacingFireIsNoOp == [][destroyedAt # -1 => log' = log]_vars

\* C3: a one-off timer that is never postponed or destroyed has not invoked
\* the listener before time delay, invokes it once at time delay and never
\* again.
C3_OneOffFiresOnceAtDelay ==
    (oneOff /\ Untouched) =>
        /\ (now < delay => log = <<>>)
        /\ (log # <<>> => log = <<delay>>)
        /\ (now > delay => log = <<delay>>)

C3_Witness ==
    /\ oneOff
    /\ Untouched
    /\ delay > 0
    /\ log = <<delay>>
    /\ now = MaxTime

\* The fires of a repeating timer left alone: the i-th at i * delay, k of them
\* when the clock stands at k * delay.
Cadence ==
    /\ \A i \in 1..Len(log) : log[i] = i * delay
    /\ \A k \in 1..MaxCalls :
          now = k * delay =>
              /\ Len(log) <= k
              /\ (Due = {} => Len(log) = k)

\* C4 as stated: for every delay >= 0 a repeating timer that is never
\* postponed or destroyed has invoked the listener exactly k times once time
\* has advanced by k * delay, the fires delay apart.
C4_RepeatingCadenceAnyDelay == (~oneOff /\ Untouched) => Cadence

\* C4 as amended: the same for every delay > 0.
C4_RepeatingCadencePositiveDelay == (~oneOff /\ Untouched /\ delay > 0) => Cadence

C4_Witness ==
    /\ ~oneOff
    /\ Untouched
    /\ delay = 2
    /\ log = <<2, 4, 6>>

\* The listener invocations since the last postpone of a live timer.
SincePostpone == Len(log) - armed.base

\* C5: after postpone(p) at time t on a live timer the fire scheduled before
\* does not happen, the next invocation is at t + p, and a repeating timer's
\* following invocations are at t + p + delay, t + p + 2 * delay, ...; a
\* one-off timer has none.
C5_PostponeSetsNextFire ==
    armed.live =>
        /\ \A i \in 1..SincePostpone :
              log[armed.base + i] = armed.at + armed.by + (i - 1) * delay
        /\ (oneOff => SincePostpone <= 1)
        /\ (now > armed.at + armed.by => SincePostpone >= 1)
        /\ (~oneOff /\ delay > 0 /\ Due = {} /\ now >= armed.at + armed.by) =>
              SincePostpone = 1 + ((now - armed.at - armed.by) \div delay)

\* The scenario of the specification, in units: fire at delay, postpone by
\* less, catch-up fire, then a fire one delay later.
C5_Witness ==
    /\ ~oneOff
    /\ delay = 2
    /\ armed = [live |-> TRUE, at |-> 2, by |-> 1, base |-> 1, arg |-> 1]
    /\ log = <<2, 3, 5>>

\* postpone on a destroyed timer never leads to a listener invocation:
\* whatever is registered for a destroyed timer has the handler null, and the
\* listener is not invoked.
PostponeAfterDestroyNeverFires ==
    destroyedAt # -1 =>
        /\ \A r \in regs : r.handler = Null
        /\ (lastOp \in {"postpone", "postponeThrew"} => Len(log) = destroyedAt)

\* C6: postpone on a destroyed timer raises no error and never leads to a
\* listener invocation.
C6_PostponeAfterDestroyQuiet ==
    /\ PostponeAfterDestroyNeverFires
    /\ destroyedAt # -1 => lastOp # "postponeThrew"

\* Postponed after destroy, and the registration postpone made has fired.
C6_Witness ==
    /\ destroyedAt # -1
    /\ lastOp = "postpone"
    /\ regs = {}
    /\ now > 0

\* C7: postpone on a destroyed timer creates no host registration: a
\* destroyed timer keeps none outstanding.
C7_DestroyedKeepsNoRegistration == destroyedAt # -1 => regs = {}

\* C8: a one-off timer invokes its listener at most once.
C8_OneOffAtMostOnce == oneOff => Len(log) <= 1

\* A one-off timer that fired and was postponed afterwards (by the listener or
\* by a later call), the registration of that postpone having fired too.
C8_Witness ==
    /\ oneOff
    /\ destroyedAt = -1
    /\ Len(log) = 1
    /\ lastOp = "postpone"
    /\ regs = {}

\* C9: destroy leaves the timer without continuation and without outstanding
\* registration, and a destroy that follows a destroy changes nothing.
C9_DestroyIdempotent ==
    [][Destroy =>
          /\ proceed' = Null
          /\ regs' = {}
          /\ (lastOp \in {"destroy", "destroyInFire", "destroyAgain"} =>
                 UNCHANGED <<proceed, identifier, regs, nextId, queue, log>>)]_vars

\* Destroyed twice in a row, a postponed timer that had fired before.
C9_Witness ==
    /\ lastOp = "destroyAgain"
    /\ postponed
    /\ destroyedAt >= 1

\* C10: a timer has at most one outstanding host registration, and it is the
\* one the identifier variable names.
C10_AtMostOneRegistration ==
    /\ Cardinality(regs) <= 1
    /\ \A r \in regs : r.id = identifier

\* A repeating timer whose catch-up fire has set up a new interval, postponed
\* again since.
C10_Witness ==
    /\ ~oneOff
    /\ Len(log) >= 2
    /\ nextId >= 5
    /\ \E r \in regs : r.kind = "timeout" /\ r.handler = "repeatProceed"

\* The only registration is the timeout postpone has just made: it carries the
\* newest identifier, the identifier variable names it, and its handler is the
\* continuation.
JustPostponed ==
    /\ Cardinality(regs) = 1
    /\ \A r \in regs :
          /\ r.kind = "timeout"
          /\ r.id = identifier
          /\ r.id = nextId - 1
          /\ r.handler = proceed

\* A fire in which the listener ran and called postpone: after construction
\* only postpone registers a timeout.
ReentrantPostpone ==
    /\ Fire
    /\ log' # log
    /\ nextId' > nextId
    /\ \E r \in regs' : r.kind = "timeout" /\ r.id = nextId' - 1

\* C11: when postpone returns, in whatever state it was called, exactly one
\* host registration is live for the timer: the timeout postpone just made.
C11_PostponeLeavesOneRegistration ==
    [][(Postpone /\ lastOp' = "postpone") \/ ReentrantPostpone => JustPostponed']_vars

\* A repeating timer postponed from inside its second listener call.
C11_Witness ==
    /\ ~oneOff
    /\ Len(log) = 2
    /\ armed.live
    /\ armed.base = 2
    /\ armed.at = log[2]
    /\ JustPostponed

\* The delay postpone(hasArg, p) registers: the new registration's.
PostponedDelay(hasArg, p) ==
    LET w == postpone(World, hasArg, p)
    IN  {r.delay : r \in {x \in w.regs : x.id = w.identifier}}

\* C12: the timeout postpone registers has the construction-time delay when
\* postpone was called with no argument, and the argument, 0 included, when
\* one was passed.
C12_PostponeDelayDefault ==
    /\ \A p \in Delays : ~postpone(World, TRUE, p).raised => PostponedDelay(TRUE, p) = {p}
    /\ ~postpone(World, FALSE, 0).raised => PostponedDelay(FALSE, 0) = {delay}
    /\ armed.live =>
          \A r \in regs :
              r.kind = "timeout" =>
                  /\ r.delay = IF armed.arg = -1 THEN delay ELSE armed.arg
                  /\ r.due = armed.at + r.delay
                  /\ (armed.arg # delay => (r.delay = delay <=> armed.arg = -1))

\* postpone(0) on a live timer whose delay is not 0.
C12_Witness ==
    /\ delay = 2
    /\ armed.live
    /\ armed.arg = 0
    /\ \E r \in regs : r.kind = "timeout" /\ r.delay = 0 /\ r.due = now

\* The registrations timer t made and the host still holds.
Mine(t) == {r \in regs : r.owner = t}

IdentifierOf(t) == IF t = 1 THEN identifier ELSE identifier2

\* A fire of timer t's registration (with whatever its listener calls), or a
\* call of postpone or destroy on timer t.
CallOn(t) == PostponeOf(t) \/ DestroyOf(t)

StepOf(t) == FireOf(t) \/ CallOn(t)

\* The step leaves the other timer's registrations, continuation, identifier
\* and listener invocations as they were.
LeavesOther(t) ==
    /\ {r \in regs' : r.owner = 3 - t} = Mine(3 - t)
    /\ IF t = 1
       THEN UNCHANGED <<proceed2, identifier2, log2>>
       ELSE UNCHANGED <<proceed, identifier, log>>

\* C13: on a host whose timeouts and intervals share one space of identifiers
\* never used twice, no postpone or destroy call on one timer, and no fire of
\* it, changes a registration, the continuation or the listener invocations of
\* the other; each timer keeps at most the registration its identifier names.
C13_NoInterferenceSharedIds ==
    [][sharedIds =>
          \A t \in {1, 2} :
              /\ StepOf(t) => LeavesOther(t)
              /\ Cardinality(Mine(t)) <= 1
              /\ \A r \in Mine(t) : r.id = IdentifierOf(t)]_vars

\* The first timer, repeating, was destroyed; the second fired afterwards and
\* still holds its registration.
C13_Witness ==
    /\ sharedIds
    /\ ~oneOff
    /\ proceed = Null
    /\ Mine(1) = {}
    /\ log2 # <<>>
    /\ log2[Len(log2)] > 0
    /\ Mine(2) # {}

\* C14 as stated: with separate identifier spaces for timeouts and intervals
\* a postpone or destroy call still cancels the calling timer's registration
\* and never one of the other timer.
C14_CleanCancelSeparateIds ==
    [][~sharedIds =>
          \A t \in {1, 2} :
              CallOn(t) =>
                  /\ \A r \in Mine(t) : r \notin regs'
                  /\ {r \in regs' : r.owner = 3 - t} = Mine(3 - t)]_vars

\* C14 as amended: the call cancels the calling timer's registration; a
\* registration of the other timer is cancelled with it when it carries the
\* identifier the caller clears (it is then of the other kind), and no other
\* registration of the other timer is touched.
C14_CancelsOwnAndSameIdentifier ==
    [][~sharedIds =>
          \A t \in {1, 2} :
              /\ CallOn(t) =>
                    /\ \A r \in Mine(t) : r \notin regs'
                    /\ \A r \in Mine(3 - t) : r \notin regs' => r.id = IdentifierOf(t)
              /\ StepOf(t) =>
                    /\ {r \in regs' : r.owner = 3 - t} \subseteq Mine(3 - t)
                    /\ \A r \in Mine(3 - t) :
                          r \notin regs' => r.id \in {IdentifierOf(t), nextIntervalId}
                    /\ \A r \in Mine(3 - t), x \in Mine(t) :
                          (r \notin regs' /\ r.id = x.id) => r.kind # x.kind]_vars

\* The second timer, never fired nor destroyed, has lost its registration to a
\* call on the first.
C14_Witness ==
    /\ ~sharedIds
    /\ proceed2 # Null
    /\ log2 = <<>>
    /\ Mine(2) = {}

\* C15: construction with a negative delay or with a listener that is no
\* function is rejected: no host registration is made and no timer exists.
C15_InvalidInputRejected ==
    (delay < 0 \/ ~listenerOk) => (regs = {} /\ ~built /\ nextId = 1)

\* The opposite of a side, as the specification states it.
Opposite(side) ==
    CASE side = <<"t", "o", "p">> -> <<"b", "o", "t", "t", "o", "m">>
      [] side = <<"b", "o", "t", "t", "o", "m">> -> <<"t", "o", "p">>
      [] side = <<"l", "e", "f", "t">> -> <<"r", "i", "g", "h", "t">>
      [] side = <<"r", "i", "g", "h", "t">> -> <<"l", "e", "f", "t">>

\* The opening detected on this host.
DetectedOpening ==
    workingOpening(IF Mode = "standard" THEN some(gHost.to) ELSE some(gHost.from))

\* What follows the first argument in the result.
AfterFirst ==
    IF Len(gArgs) > 1 THEN <<",">> \o join(Tail(gArgs)) \o <<")">> ELSE <<")">>

EndsWith(s, t) == Len(s) >= Len(t) /\ SubSeq(s, Len(s) - Len(t) + 1, Len(s)) = t

\* C16: in the alternative mode a first argument 'to S' or 'to S1 S2' becomes
\* the opposite side(s), reversing a side twice gives the side, the other
\* arguments are kept, and the result is the opening, the arguments joined by
\* ',' and ')'; in the standard mode the arguments are joined unchanged; with
\* no supported prefix or syntax the result is the empty string.
C16_GradientString ==
    /\ \A side \in SideSet : reverseSide(reverseSide(side)) = side
    /\ gResult # Pending =>
        /\ Mode = "null" => gResult = <<>>
        /\ Mode = "standard" => gResult = DetectedOpening \o join(gArgs) \o <<")">>
        /\ Mode = "alternative" =>
            /\ \A gap \in Gaps, side \in SideSet :
                   gArgs # <<>> /\ gArgs[1] = To(gap, side) =>
                       gResult = DetectedOpening \o Opposite(side) \o AfterFirst
            /\ \A side1 \in SideSet, side2 \in SideSet :
                   gArgs # <<>> /\ gArgs[1] = ToCorner(side1, side2) =>
                       gResult = DetectedOpening \o Opposite(side1) \o <<" ">>
                                     \o Opposite(side2) \o AfterFirst
            /\ gArgs # <<>> => EndsWith(gResult, AfterFirst)
            /\ SubSeq(gResult, 1, Len(DetectedOpening)) = DetectedOpening

\* 'to bottom', '#444', 'rgba(68, 68, 68, 0)' on a host that only accepts the
\* -webkit- prefix with the alternative syntax.
C16_Witness ==
    /\ Mode = "alternative"
    /\ gArgs = <<<<"t", "o", " ", "b", "o", "t", "t", "o", "m">>,
                 <<"#", "4", "4", "4">>, <<"r", "g", "b", "a", "(", "6", "8", ",", " ", "6", "8", ",", " ", "6", "8", ",", " ", "0", ")">>>>
    /\ gResult = <<"-", "w", "e", "b", "k", "i", "t", "-", "l", "i", "n", "e", "a", "r", "-", "g", "r", "a", "d", "i", "e", "n", "t", "(", "t", "o", "p", ",", "#", "4", "4", "4", ",", "r", "g", "b", "a", "(", "6", "8", ",", " ", "6", "8", ",", " ", "6", "8", ",", " ", "0", ")", ")">>

\* A fire in which the listener ran and called destroy on its own timer.
ReentrantDestroy == Fire /\ log' # log /\ lastOp' = "destroyInFire"

\* C17: when a listener call that destroyed its own timer returns, the timer
\* has no outstanding registration, and its listener is never invoked again.
C17_DestroyInsideFire ==
    [][/\ ReentrantDestroy => (regs' = {} /\ proceed' = Null /\ destroyedAt' = Len(log'))
       /\ destroyedAt # -1 => log' = log]_vars

\* The catch-up fire of a postponed repeating timer, whose listener destroyed
\* the timer: the interval the continuation had just created (the third
\* registration of the timer) is gone.
C17_Witness ==
    /\ ~oneOff
    /\ postponed
    /\ lastOp = "destroyInFire"
    /\ Len(log) = 1
    /\ nextId = 4
    /\ regs = {}

\* The same in a periodic fire of a repeating timer.
C17_WitnessPeriodic ==
    /\ ~oneOff
    /\ ~postponed
    /\ lastOp = "destroyInFire"
    /\ regs = {}

\* The same in the fire of a one-off timer.
C17_WitnessOneOff ==
    /\ oneOff
    /\ lastOp = "destroyInFire"
    /\ log # <<>>
    /\ regs = {}

\* The timer is Active or Postponed: not destroyed, and no one-off timer that
\* has fired.
ActiveOrPostponed == destroyedAt = -1 /\ (oneOff => log = <<>>)

\* C18: the continuation is set exactly while the timer is Active or
\* Postponed, and once it is null no step sets it again.
C18_ContinuationLifetime ==
    /\ [](proceed # Null <=> ActiveOrPostponed)
    /\ [][proceed = Null => proceed' = Null]_vars

\* A one-off timer that fired and was postponed afterwards: the continuation
\* is still null.
C18_Witness ==
    /\ oneOff
    /\ Len(log) = 1
    /\ destroyedAt = -1
    /\ lastOp = "postpone"
    /\ proceed = Null

\* A repeating timer that fired twice and was postponed: the continuation is
\* still set.
C18_WitnessRepeating ==
    /\ ~oneOff
    /\ Len(log) = 2
    /\ lastOp = "postpone"
    /\ proceed = "repeatProceed"

\* What a definition of Timer does to the program and to the host: the closure
\* variables, the host's registrations and identifiers, the listener calls.
Behaviour(w) ==
    [proceed |-> w.proceed, identifier |-> w.identifier, regs |-> w.regs,
     nextId |-> w.nextId, nextIntervalId |-> w.nextIntervalId, log |-> w.log,
     raised |-> w.raised]

\* C19: the minified definition behaves as the readable one: constructed with
\* the same arguments they agree, and from every state the readable one
\* reaches, each call and each host fire has the same effect under both.
C19_MinifiedEquivalent ==
    /\ Behaviour(MinTimer(Fresh)) = Behaviour(Timer(Fresh))
    /\ Behaviour(MinDestroy(World)) = Behaviour(destroy(World))
    /\ \A hasArg \in BOOLEAN, p \in Delays :
           Behaviour(MinPostpone(World, hasArg, p)) = Behaviour(postpone(World, hasArg, p))
    /\ \A r \in Due, reaction \in Reactions :
           Behaviour(MinRun(Expire(World, r), r.handler, reaction))
               = Behaviour(Run(Expire(World, r), r.handler, reaction))

\* A repeating timer that fired twice and was postponed, where a postpone
\* with an argument other than the default replaces the registration, under
\* the minified definition too.
C19_Witness ==
    /\ ~oneOff
    /\ delay = 2
    /\ Len(log) = 2
    /\ lastOp = "postpone"
    /\ Cardinality(regs) = 1
    /\ MinPostpone(World, TRUE, 1).regs # regs
    /\ \A r \in MinPostpone(World, TRUE, 1).regs : r.delay = 1 /\ r.handler = "repeatProceed"

\* The timer holds a registration that runs the listener.
Scheduled == \E r \in regs : r.handler \in {"listener", "oneOffProceed", "repeatProceed"}

\* The listener's next call is not to be expected within the bounds explored:
\* the timer was destroyed, postpone calls used up the host's identifiers, or
\* moved the registration beyond the last instant.
Excused ==
    \/ destroyedAt # -1
    \/ nextId > MaxId
    \/ \A r \in regs : r.due > MaxTime

\* Nothing more is owed: a one-off timer has fired, or a repeating timer has
\* made every listener call explored.
Served == IF oneOff THEN Len(log) = 1 ELSE Len(log) = MaxCalls

\* C20: on a fair host, a timer that is not destroyed keeps a registration that
\* runs its listener until a one-off timer has fired, and its listener keeps
\* being called (once, for a one-off timer) unless the timer is destroyed or
\* postponed further.
C20_EventuallyInvoked ==
    /\ [](ActiveOrPostponed => Scheduled)
    /\ [](oneOff => Len(log) <= 1)
    /\ []<>(Served \/ Excused)

\* A repeating timer, never destroyed, postponed once after its first call,
\* that has reached the last listener call explored.
C20_Witness ==
    /\ ~oneOff
    /\ destroyedAt = -1
    /\ postponed
    /\ nextId = 4
    /\ Len(log) = MaxCalls
    /\ log[1] < log[2]
    /\ ~Excused

\* A one-off timer, never destroyed, postponed twice, whose listener was called.
C20_WitnessOneOff ==
    /\ oneOff
    /\ destroyedAt = -1
    /\ nextId = 4
    /\ Len(log) = 1

====
